---- MODULE Spec2Model ----
(***************************************************************************)
(* Model of the Note Keeper backend: the in-memory notes repository        *)
(* (repositories/notes_repository.py), reached through the service facade  *)
(* (services/notes_service.py) and the HTTP handlers (routers/notes.py).   *)
(*                                                                         *)
(* Strings are sequences of one-character strings, so that str.lower() and *)
(* the substring test `in` are computed, not assumed.  An Optional value   *)
(* is the empty tuple (None) or a one-element tuple holding the value.     *)
(* A Note object stored in the dictionary is identified by its key; the    *)
(* references a caller holds after a call are the keys of the stored       *)
(* objects the call's result and argument point to (Held, HeldTags).       *)
(***************************************************************************)
EXTENDS Integers, Sequences, FiniteSets, TLC

----------------------------------------------------------------------------
(* Bounds of the model *)

MaxNotes == 2        \* create calls in a behaviour
MaxThreads == 2      \* requests the thread pool runs at the same time

----------------------------------------------------------------------------
(* Values *)

None == <<>>
Some(x) == <<x>>
IsNone(o) == Len(o) = 0
Val(o) == o[1]

Min(a, b) == IF a <= b THEN a ELSE b

Ids == 1..MaxNotes

\* readings of the clock (datetime.utcnow()), an input like the request bodies
Times == {0, 1}

\* inputs of the operations: the request bodies and query strings tried
Titles == { <<"A", "b">>, <<"b">> }
Contents == { None, Some(<<"a", "C">>) }
TagLists == { <<>>, <<"x">> }
Queries == { None, Some(<<"A", "B">>), Some(<<"C">>) }
Limits == {1, 2}
Offsets == {0, 2}

\* models.NoteCreate (title: str, content: Optional[str], tags: List[str])
NoteCreate ==
    { [title |-> <<"A", "b">>, content |-> None, tags |-> <<>>],
      [title |-> <<"b">>, content |-> Some(<<"a", "C">>), tags |-> <<"x">>] }

\* models.NoteUpdate (every field Optional, None by default)
NoteUpdate ==
    { [title |-> None, content |-> None, tags |-> None],
      [title |-> None, content |-> None, tags |-> Some(<<"x">>)],
      [title |-> None, content |-> None, tags |-> Some(<<>>)],
      [title |-> Some(<<"b">>), content |-> Some(<<"a", "C">>), tags |-> None] }

Note(id, title, content, tags, created_at, updated_at) ==
    [id |-> id, title |-> title, content |-> content, tags |-> tags,
     created_at |-> created_at, updated_at |-> updated_at]

----------------------------------------------------------------------------
(* str.lower() and the substring test *)

LowerChar(c) ==
    CASE c = "A" -> "a" [] c = "B" -> "b" [] c = "C" -> "c" [] OTHER -> c

\* faulty variant: the strings are compared as they are
LowerNoop(s) == s

Lower(s) == [i \in 1..Len(s) |-> LowerChar(s[i])]

Contains(sub, s) ==
    \E i \in 0..(Len(s) - Len(sub)) : SubSeq(s, i + 1, i + Len(sub)) = sub

----------------------------------------------------------------------------
(* The insertion-ordered dictionary _items, as the sequence of its values  *)
(* (each value carries its key in the field id).                           *)

Keys(d) == {d[i].id : i \in 1..Len(d)}
Has(d, k) == k \in Keys(d)
IndexOf(d, k) == CHOOSE i \in 1..Len(d) : d[i].id = k
Lookup(d, k) == d[IndexOf(d, k)]

\* d[k] = v : an existing key keeps its position, a new key goes last
DictSet(d, v) ==
    IF Has(d, v.id) THEN [d EXCEPT ![IndexOf(d, v.id)] = v] ELSE Append(d, v)

\* faulty variant: the oldest entry goes instead of the one asked for
DictPopFirst(d, k) == IF Has(d, k) THEN Tail(d) ELSE d

\* faulty variant: the entry is read but not removed (d.get(k) for d.pop(k, None))
DictPopKeeps(d, k) == d

\* d.pop(k, None)
DictPop(d, k) ==
    IF Has(d, k)
    THEN SubSeq(d, 1, IndexOf(d, k) - 1) \o SubSeq(d, IndexOf(d, k) + 1, Len(d))
    ELSE d

\* faulty variant: s[offset : limit]
SliceToLimit(s, offset, limit) == SubSeq(s, offset + 1, Min(limit, Len(s)))

\* s[offset : offset + limit] for offset >= 0, limit >= 0
Slice(s, offset, limit) == SubSeq(s, offset + 1, Min(offset + limit, Len(s)))

RECURSIVE SelectNotes(_, _)
SelectNotes(s, q) ==
    IF s = <<>> THEN <<>>
    ELSE LET n == Head(s)
             hit == \/ Contains(Lower(q), Lower(n.title))
                    \/ /\ ~IsNone(n.content)
                       /\ Val(n.content) # <<>>
                       /\ Contains(Lower(q), Lower(Val(n.content)))
         IN (IF hit THEN <<n>> ELSE <<>>) \o SelectNotes(Tail(s), q)

----------------------------------------------------------------------------
VARIABLES
    items,      \* InMemoryNotesRepository._items
    now,        \* the clock datetime.utcnow() reads
    nextId,     \* uuid4: the number of the next identifier
    nCreated,   \* history: create calls made
    nDeleted,   \* history: delete calls that returned True
    removed,    \* history: the ids a delete call has removed
    last,       \* the last request, what the repository returned, the response
    threads     \* the requests in flight: each worker thread's request,
                \* position in the repository method, locals and answer

vars == <<items, now, nextId, nCreated, nDeleted, removed, last, threads>>

Tids == 1..MaxThreads

NoData == [title |-> None, content |-> None, tags |-> None]

\* note.model_dump() and NoteOut.model_validate(...): a new object, field by field
ModelDump(n) ==
    [id |-> n.id, title |-> n.title, content |-> n.content, tags |-> n.tags,
     created_at |-> n.created_at, updated_at |-> n.updated_at]

NoteOut(n) ==
    LET dump == ModelDump(n)
    IN Note(dump.id, dump.title, dump.content, dump.tags,
            dump.created_at, dump.updated_at)

\* a worker thread: pc is its position (idle, check, read, store, pop, done),
\* local the value it has read or built, note/deleted what the repository
\* returned and status the handler's answer (500: an exception other than
\* HTTPException left the handler)
Thread(pc, op, id, data, local, note, deleted, status) ==
    [pc |-> pc, op |-> op, id |-> id, data |-> data, local |-> local,
     note |-> note, deleted |-> deleted, status |-> status]

Idle == Thread("idle", "none", 0, NoData, None, None, FALSE, 0)

\* a request (op, id, data), what the repository returned for it
\* (note: Optional[Note]; deleted: bool) and the handler's answer (status, body)
Response(op, id, status, note, data) ==
    [op |-> op, id |-> id, status |-> status, note |-> note, data |-> data,
     body |-> IF IsNone(note) THEN None ELSE Some(NoteOut(Val(note))),
     deleted |-> FALSE, q |-> None, limit |-> 0, offset |-> 0,
     total |-> 0, items |-> <<>>]

----------------------------------------------------------------------------
(* Repository operations, as functions of the dictionary *)

\* faulty variant: the identifier of a deleted note is handed out again
\* (the lowest identifier that is not a key)
Uuid4Reuse == CHOOSE i \in Ids : ~Has(items, i) /\ \A j \in Ids : ~Has(items, j) => i <= j

Uuid4 == nextId

UtcNow == now

\* faulty variant: the draft's tags are dropped
TagsDropped(tags) == <<>>

\* data.tags or []
OrEmpty(tags) == IF tags = <<>> THEN <<>> ELSE tags

RepoCreate(data) ==
    LET t == UtcNow
    IN Note(Uuid4, data.title, data.content, OrEmpty(data.tags), t, t)

RepoGet(d, id) == IF Has(d, id) THEN Some(Lookup(d, id)) ELSE None

RepoFilter(d, q) ==
    IF ~IsNone(q) /\ Val(q) # <<>> THEN SelectNotes(d, Val(q)) ELSE d

RepoList(d, q, limit, offset) ==
    LET filtered == RepoFilter(d, q)
    IN [total |-> Len(filtered), items |-> Slice(filtered, offset, limit)]

\* faulty variant: the replacement is stamped as if it were newly created
RepoReplaceStampsCreated(old, data) ==
    Note(old.id, data.title, data.content, OrEmpty(data.tags), UtcNow, UtcNow)

RepoReplace(old, data) ==
    Note(old.id, data.title, data.content, OrEmpty(data.tags),
         old.created_at, UtcNow)

\* faulty variant: `data.tags or note.tags`, an empty list of tags counts as not given
RepoUpdateFalsyKept(old, data) ==
    [old EXCEPT !.title = IF ~IsNone(data.title) THEN Val(data.title) ELSE old.title,
                !.content = IF ~IsNone(data.content) THEN data.content ELSE old.content,
                !.tags = IF ~IsNone(data.tags) /\ Val(data.tags) # <<>>
                         THEN Val(data.tags) ELSE old.tags,
                !.updated_at = UtcNow]

\* faulty variant: the time goes to created_at
RepoUpdateStampsCreated(old, data) ==
    [old EXCEPT !.title = IF ~IsNone(data.title) THEN Val(data.title) ELSE old.title,
                !.content = IF ~IsNone(data.content) THEN data.content ELSE old.content,
                !.tags = IF ~IsNone(data.tags) THEN Val(data.tags) ELSE old.tags,
                !.created_at = UtcNow]

RepoUpdate(old, data) ==
    [old EXCEPT !.title = IF ~IsNone(data.title) THEN Val(data.title) ELSE old.title,
                !.content = IF ~IsNone(data.content) THEN data.content ELSE old.content,
                !.tags = IF ~IsNone(data.tags) THEN Val(data.tags) ELSE old.tags,
                !.updated_at = UtcNow]

\* the handlers' `if not note` / `if not deleted`: raise HTTPException(404)
StatusOf(found, success) == IF found THEN success ELSE 404

----------------------------------------------------------------------------
Init ==
    /\ items = <<>>
    /\ now = 0
    /\ nextId = 1
    /\ nCreated = 0
    /\ nDeleted = 0
    /\ removed = {}
    /\ last = Response("init", 0, 0, None, NoData)
    /\ threads = [t \in Tids |-> Idle]

\* the clock advances between requests
Tick ==
    /\ now + 1 \in Times
    /\ now' = now + 1
    /\ last' = Response("tick", 0, 0, None, NoData)
    /\ UNCHANGED <<items, nextId, nCreated, nDeleted, removed, threads>>

\* POST /notes
CreateNote(payload) ==
    /\ nextId <= MaxNotes
    /\ LET note == RepoCreate(payload)
       IN /\ items' = DictSet(items, note)
          /\ last' = Response("create", note.id, 201, Some(note), payload)
    /\ nextId' = nextId + 1
    /\ nCreated' = nCreated + 1
    /\ UNCHANGED <<now, nDeleted, removed, threads>>

\* GET /notes/{note_id}
GetNote(note_id) ==
    /\ LET note == RepoGet(items, note_id)
       IN last' = Response("get", note_id, StatusOf(~IsNone(note), 200),
                           note, NoData)
    /\ UNCHANGED <<items, now, nextId, nCreated, nDeleted, removed, threads>>

\* GET /notes
ListNotes(q, limit, offset) ==
    /\ LET page == RepoList(items, q, limit, offset)
       IN last' = [Response("list", 0, 200, None, NoData) EXCEPT
                     !.q = q, !.limit = limit, !.offset = offset,
                     !.total = page.total, !.items = page.items]
    /\ UNCHANGED <<items, now, nextId, nCreated, nDeleted, removed, threads>>

\* PUT /notes/{note_id}
ReplaceNote(note_id, payload) ==
    /\ IF ~Has(items, note_id)
       THEN /\ items' = items
            /\ last' = Response("replace", note_id, StatusOf(FALSE, 200),
                                None, payload)
       ELSE LET note == RepoReplace(Lookup(items, note_id), payload)
            IN /\ items' = DictSet(items, note)
               /\ last' = Response("replace", note_id, StatusOf(TRUE, 200),
                                   Some(note), payload)
    /\ UNCHANGED <<now, nextId, nCreated, nDeleted, removed, threads>>

\* PATCH /notes/{note_id}
UpdateNote(note_id, payload) ==
    /\ IF ~Has(items, note_id)
       THEN /\ items' = items
            /\ last' = Response("update", note_id, StatusOf(FALSE, 200),
                                None, payload)
       ELSE LET note == RepoUpdate(Lookup(items, note_id), payload)
            IN /\ items' = DictSet(items, note)
               /\ last' = Response("update", note_id, StatusOf(TRUE, 200),
                                   Some(note), payload)
    /\ UNCHANGED <<now, nextId, nCreated, nDeleted, removed, threads>>

\* DELETE /notes/{note_id}
DeleteNote(note_id) ==
    /\ LET deleted == Has(items, note_id)
       IN /\ items' = DictPop(items, note_id)
          /\ nDeleted' = IF deleted THEN nDeleted + 1 ELSE nDeleted
          /\ removed' = IF deleted THEN removed \cup {note_id} ELSE removed
          /\ last' = [Response("delete", note_id, StatusOf(deleted, 204),
                               None, NoData) EXCEPT !.deleted = deleted]
    /\ UNCHANGED <<now, nextId, nCreated, threads>>

Next ==
    \/ Tick
    \/ \E payload \in NoteCreate : CreateNote(payload)
    \/ \E note_id \in Ids : GetNote(note_id)
    \/ \E q \in Queries, limit \in Limits, offset \in Offsets :
          ListNotes(q, limit, offset)
    \/ \E note_id \in Ids, payload \in NoteCreate : ReplaceNote(note_id, payload)
    \/ \E note_id \in Ids, payload \in NoteUpdate : UpdateNote(note_id, payload)
    \/ \E note_id \in Ids : DeleteNote(note_id)

Spec == Init /\ [][Next]_vars

----------------------------------------------------------------------------
(* A caller inside the process (the service, a handler, a test) that keeps *)
(* what the repository handed back and changes it.                         *)

\* the stored Note objects the last returned value is: create, replace and
\* update return the object they stored, get returns the stored object, list
\* returns a list of the stored objects
Held ==
    CASE last.op \in {"create", "get", "replace", "update"} /\ ~IsNone(last.note)
           -> {last.id}
      [] last.op = "list" -> Keys(last.items)
      [] OTHER -> {}

\* the stored note whose tags attribute is the very list object of the last
\* request body (0: none).  Note(...) validates and so copies data.tags;
\* model_copy(update=...) stores data.tags unvalidated, the same object.
HeldTags ==
    IF last.op = "update" /\ ~IsNone(last.note) /\ ~IsNone(last.data.tags)
    THEN last.id ELSE 0

\* returned.title = title
CallerSetsTitle(note_id, title) ==
    /\ note_id \in Held
    /\ items' = DictSet(items, [Lookup(items, note_id) EXCEPT !.title = title])
    /\ last' = Response("mutate", note_id, 0, None, NoData)
    /\ UNCHANGED <<now, nextId, nCreated, nDeleted, removed, threads>>

\* returned.tags[:] = tags
CallerChangesTags(note_id, tags) ==
    /\ note_id \in Held
    /\ items' = DictSet(items, [Lookup(items, note_id) EXCEPT !.tags = tags])
    /\ last' = Response("mutate", note_id, 0, None, NoData)
    /\ UNCHANGED <<now, nextId, nCreated, nDeleted, removed, threads>>

\* payload.tags[:] = tags, after the call that was given payload
CallerChangesDraftTags(tags) ==
    /\ last.op \in {"create", "replace", "update"}
    /\ last.op = "update" => ~IsNone(last.data.tags)
    /\ items' = IF HeldTags # 0
                THEN DictSet(items, [Lookup(items, HeldTags) EXCEPT !.tags = tags])
                ELSE items
    /\ last' = Response("mutate", last.id, 0, None, NoData)
    /\ UNCHANGED <<now, nextId, nCreated, nDeleted, removed, threads>>

NextOwn ==
    \/ Next
    \/ \E note_id \in Ids, title \in Titles : CallerSetsTitle(note_id, title)
    \/ \E note_id \in Ids, tags \in TagLists : CallerChangesTags(note_id, tags)
    \/ \E tags \in TagLists : CallerChangesDraftTags(tags)

SpecOwn == Init /\ [][NextOwn]_vars

----------------------------------------------------------------------------
(* Requests served at the same time.  The handlers are plain `def`        *)
(* functions, which the framework runs on worker threads; all of them     *)
(* reach the one module-level service, its repository and its dictionary, *)
(* and nothing locks it.  A thread switch can fall between any two        *)
(* dictionary accesses of a repository method, so each access is a step.  *)

\* the requests a worker thread serves here: PUT, PATCH and DELETE of an id
Requests ==
    [op : {"replace"}, id : Ids, data : NoteCreate]
        \cup [op : {"update"}, id : Ids, data : NoteUpdate]
        \cup [op : {"delete"}, id : Ids, data : {NoData}]

AllIdle == \A t \in Tids : threads[t].pc = "idle"

AllDone == \A t \in Tids : threads[t].pc = "done"

\* the thread's handler returns: the repository's value (note, deleted) and
\* the status of the response
Return(t, note, deleted, status) ==
    [threads EXCEPT ![t] = [@ EXCEPT !.pc = "done", !.local = None, !.note = note,
                                     !.deleted = deleted, !.status = status]]

\* the requests arrive, one for each worker thread, and the handlers enter the
\* repository method; last keeps the dictionary as it was on arrival
Accept(reqs) ==
    /\ AllIdle
    /\ threads' = [t \in Tids |->
                     Thread(IF reqs[t].op = "delete" THEN "pop" ELSE "check",
                            reqs[t].op, reqs[t].id, reqs[t].data,
                            None, None, FALSE, 0)]
    /\ last' = [Response("accept", 0, 0, None, NoData) EXCEPT !.items = items]
    /\ UNCHANGED <<items, now, nextId, nCreated, nDeleted, removed>>

\* replace, update: `if note_id not in self._items: return None`
Check(t) ==
    /\ threads[t].pc = "check"
    /\ threads' = IF Has(items, threads[t].id)
                  THEN [threads EXCEPT ![t].pc = "read"]
                  ELSE Return(t, None, FALSE, StatusOf(FALSE, 200))
    /\ UNCHANGED <<items, now, nextId, nCreated, nDeleted, removed, last>>

\* replace: `note = Note(..., created_at=self._items[note_id].created_at, ...)`
\* update: `note = self._items[note_id]`
\* The subscript raises KeyError when the key has gone since the test; the
\* handler does not catch it and the request is answered with status 500.
Read(t) ==
    /\ threads[t].pc = "read"
    /\ threads' =
         IF ~Has(items, threads[t].id)
         THEN Return(t, None, FALSE, 500)
         ELSE LET stored == Lookup(items, threads[t].id)
              IN [threads EXCEPT
                    ![t].pc = "store",
                    ![t].local = IF threads[t].op = "replace"
                                 THEN Some(RepoReplace(stored, threads[t].data))
                                 ELSE Some(stored)]
    /\ UNCHANGED <<items, now, nextId, nCreated, nDeleted, removed, last>>

\* replace: `self._items[note_id] = note; return note`
\* update: `updated = note.model_copy(update=...); self._items[note_id] = updated;
\* return updated`.  The assignment inserts the key when it is not there.
Store(t) ==
    /\ threads[t].pc = "store"
    /\ LET note == IF threads[t].op = "replace"
                   THEN Val(threads[t].local)
                   ELSE RepoUpdate(Val(threads[t].local), threads[t].data)
       IN /\ items' = DictSet(items, note)
          /\ threads' = Return(t, Some(note), FALSE, StatusOf(TRUE, 200))
    /\ UNCHANGED <<now, nextId, nCreated, nDeleted, removed, last>>

\* delete: `return self._items.pop(note_id, None) is not None`, one access
Pop(t) ==
    /\ threads[t].pc = "pop"
    /\ LET deleted == Has(items, threads[t].id)
       IN /\ items' = DictPop(items, threads[t].id)
          /\ nDeleted' = IF deleted THEN nDeleted + 1 ELSE nDeleted
          /\ removed' = IF deleted THEN removed \cup {threads[t].id} ELSE removed
          /\ threads' = Return(t, None, deleted, StatusOf(deleted, 204))
    /\ UNCHANGED <<now, nextId, nCreated, last>>

\* notes are created, and the clock advances, before the requests arrive
NextConc ==
    \/ AllIdle /\ Tick
    \/ \E payload \in NoteCreate : AllIdle /\ CreateNote(payload)
    \/ \E reqs \in [Tids -> Requests] : Accept(reqs)
    \/ \E t \in Tids : Check(t)
    \/ \E t \in Tids : Read(t)
    \/ \E t \in Tids : Store(t)
    \/ \E t \in Tids : Pop(t)

SpecConc == Init /\ [][NextConc]_vars

----------------------------------------------------------------------------
(* Properties *)

\* what the properties call a match, written from the letters and not from
\* the repository's lower()/in: q occurs in s at some position, letter by
\* letter, a letter and its other case counting as the same
SameLetter(a, b) ==
    \/ a = b
    \/ {a, b} = {"a", "A"}
    \/ {a, b} = {"b", "B"}
    \/ {a, b} = {"c", "C"}

OccursIgnoringCase(q, s) ==
    \E i \in 0..(Len(s) - Len(q)) : \A j \in 1..Len(q) : SameLetter(q[j], s[i + j])

NoteMatches(q, n) ==
    \/ OccursIgnoringCase(q, n.title)
    \/ ~IsNone(n.content) /\ OccursIgnoringCase(q, Val(n.content))

Live == Keys(items)

\* C1: once a delete has removed the note with some id, every later get,
\* replace and update on that id returns None, every later delete on it
\* returns False, and the id is never a key of the store again, whatever
\* other requests (creates included) come in between.
C1_DeletedIdStaysAbsent ==
    [][\A id \in removed :
          /\ id \in removed'
          /\ ~Has(items', id)
          /\ (last'.id = id /\ last'.op \in {"get", "replace", "update"})
                => IsNone(last'.note)
          /\ (last'.id = id /\ last'.op = "delete") => ~last'.deleted]_vars

C1_Witness ==
    /\ last.op = "replace"
    /\ last.id \in removed
    /\ IsNone(last.note)
    /\ nextId > last.id + 1
    /\ Len(items) > 0

\* C2: the note create returns and the note a get on the returned id gives
\* right after it are equal in every field, and its title, content and tags
\* are the draft's.
C2_CreateThenGet ==
    last.op = "create" =>
        LET made == Val(last.note)
            got == RepoGet(items, last.id)
        IN /\ ~IsNone(got)
           /\ \A f \in {"id", "title", "content", "tags", "created_at", "updated_at"} :
                 Val(got)[f] = made[f]
           /\ made.title = last.data.title
           /\ made.content = last.data.content
           /\ made.tags = last.data.tags

C2_Witness ==
    /\ last.op = "create"
    /\ Len(items) = 2
    /\ last.data.tags # <<>>
    /\ ~IsNone(last.data.content)
    /\ RepoGet(items, last.id) = last.note

\* C3: a list with a non-empty query returns only notes whose title or content
\* contains the query ignoring case (a note without content only through its
\* title), and its total is the number of all such notes in the store,
\* whatever limit and offset are.
C3_ListFilters ==
    (last.op = "list" /\ ~IsNone(last.q) /\ Val(last.q) # <<>>) =>
        LET q == Val(last.q)
        IN /\ \A i \in 1..Len(last.items) :
                 /\ NoteMatches(q, last.items[i])
                 /\ IsNone(last.items[i].content)
                       => OccursIgnoringCase(q, last.items[i].title)
                 /\ \E k \in 1..Len(items) : items[k] = last.items[i]
           /\ last.total = Cardinality({k \in 1..Len(items) : NoteMatches(q, items[k])})
           /\ \A limit \in Limits, offset \in Offsets :
                 RepoList(items, last.q, limit, offset).total = last.total

C3_Witness ==
    /\ last.op = "list"
    /\ last.q = Some(<<"A", "B">>)
    /\ last.limit = 1
    /\ last.total = 1
    /\ Len(last.items) = 1
    /\ IsNone(last.items[1].content)
    /\ \E k \in 1..Len(items) : ~IsNone(items[k].content) /\ ~NoteMatches(Val(last.q), items[k])

\* q selects n: no query, an empty one, or one that n matches
Selects(q, n) == IsNone(q) \/ Val(q) = <<>> \/ NoteMatches(Val(q), n)

RECURSIVE InCreationOrder(_, _)
\* the live notes q selects, from the one created first (ids are handed out
\* in increasing order) to the one created last
InCreationOrder(i, q) ==
    IF i >= nextId THEN <<>>
    ELSE (IF Has(items, i) /\ Selects(q, Lookup(items, i))
          THEN <<Lookup(items, i)>> ELSE <<>>)
         \o InCreationOrder(i + 1, q)

Expected(q) == InCreationOrder(1, q)

RECURSIVE PagesFrom(_, _, _)
\* the pages at offsets k*limit, (k+1)*limit, ... one after the other, up to
\* and including the first offset at or beyond the end of the store
PagesFrom(q, limit, k) ==
    RepoList(items, q, limit, k * limit).items
    \o (IF k * limit >= Len(items) THEN <<>> ELSE PagesFrom(q, limit, k + 1))

\* the elements offset+1 .. offset+limit of s that exist
Window(s, offset, limit) ==
    LET n == IF Len(s) - offset < 0 THEN 0 ELSE Min(limit, Len(s) - offset)
    IN [i \in 1..n |-> s[offset + i]]

KeyOrder(d) == [i \in 1..Len(d) |-> d[i].id]

\* C4: for any query and any limit >= 1 the pages at offsets 0, limit,
\* 2*limit, ... put together are exactly the matching notes in creation
\* order, none twice and none missing; an offset at or beyond the number of
\* matching notes gives no items, the same total and no error; and after a
\* replace or an update every note is still at its position in that order.
C4_Pagination ==
    /\ \A q \in Queries :
          LET expected == Expected(q)
          IN /\ \A limit \in 1..(Len(items) + 1) :
                   /\ PagesFrom(q, limit, 0) = expected
                   /\ \A offset \in Len(expected)..(Len(expected) + 2) :
                         RepoList(items, q, limit, offset)
                            = [total |-> Len(expected), items |-> <<>>]
             /\ \A i, j \in 1..Len(expected) : i < j => expected[i].id < expected[j].id
    /\ last.op = "list" =>
          /\ last.items = Window(Expected(last.q), last.offset, last.limit)
          /\ last.total = Len(Expected(last.q))
          /\ last.status = 200
    /\ last.op \in {"replace", "update"} =>
          /\ KeyOrder(items) = KeyOrder(Expected(None))
          /\ ~IsNone(last.note) => Lookup(items, last.id) = Val(last.note)

C4_Witness ==
    /\ last.op = "list"
    /\ IsNone(last.q)
    /\ last.limit = 1
    /\ last.offset = 2
    /\ last.items = <<>>
    /\ last.total = 2
    /\ items[1].updated_at > items[2].created_at
    /\ PagesFrom(None, 1, 0) = items

\* C5: a list without a query has total = create calls made - delete calls
\* that returned True = the number of live notes, after any requests (so a
\* replace, an update or a delete of an absent id leaves it as it is), and
\* no two live notes have the same id.
C5_TotalCountsLiveNotes ==
    /\ \A limit \in Limits, offset \in Offsets :
          RepoList(items, None, limit, offset).total = nCreated - nDeleted
    /\ (last.op = "list" /\ IsNone(last.q)) => last.total = nCreated - nDeleted
    /\ Len(items) = nCreated - nDeleted
    /\ Cardinality(Live) = Len(items)
    /\ \A i, j \in 1..Len(items) : i # j => items[i].id # items[j].id

C5_Witness ==
    /\ last.op = "list"
    /\ IsNone(last.q)
    /\ nCreated = 2
    /\ nDeleted = 1
    /\ last.total = 1

C7_ReplaceOverwrites ==
    [][(last'.op = "replace" /\ ~IsNone(last'.note)) =>
          /\ Has(items, last'.id)
          /\ RepoGet(items', last'.id) = last'.note
          /\ LET old == Lookup(items, last'.id)
                 new == Val(last'.note)
                 data == last'.data
             IN /\ new.title = data.title
                /\ new.content = data.content
                /\ new.tags = data.tags
                /\ new.id = last'.id
                /\ new.id = old.id
                /\ new.created_at = old.created_at
                /\ new.updated_at = now]_vars

C7_Witness ==
    /\ last.op = "replace"
    /\ ~IsNone(last.note)
    /\ last.data.tags = <<>>
    /\ Val(last.note).tags = <<>>
    /\ IsNone(Val(last.note).content)
    /\ Val(last.note).created_at < Val(last.note).updated_at
    /\ Lookup(items, last.id) = Val(last.note)

\* C8: every live note has created_at <= updated_at, the two are equal right
\* after its create, and while the clock does not run backwards no request
\* lowers a note's updated_at or changes its created_at.
C8_Timestamps ==
    /\ [](/\ \A i \in 1..Len(items) : items[i].created_at <= items[i].updated_at
          /\ last.op = "create" =>
                /\ Lookup(items, last.id).created_at = Lookup(items, last.id).updated_at
                /\ Val(last.note).created_at = Val(last.note).updated_at)
    /\ [][\A id \in Keys(items) \cap Keys(items') :
             /\ Lookup(items', id).updated_at >= Lookup(items, id).updated_at
             /\ Lookup(items', id).created_at = Lookup(items, id).created_at]_vars

C8_Witness ==
    /\ last.op = "update"
    /\ ~IsNone(last.note)
    /\ Val(last.note).created_at < Val(last.note).updated_at
    /\ \E i \in 1..Len(items) : items[i].id # last.id /\ items[i].created_at = items[i].updated_at

\* C9: a create adds one entry and leaves the others as they were; a replace,
\* update or delete of id X leaves every entry of another id as it was; on an
\* absent id they leave the store as it was and return None / False, which
\* GET, PUT, PATCH and DELETE /notes/{id} answer with 404; get and list leave
\* the store as it was.
C9_OnlyTheTargetChanges ==
    [][/\ last'.op = "create" =>
             /\ Len(items') = Len(items) + 1
             /\ \A i \in 1..Len(items) : items'[i] = items[i]
       /\ last'.op \in {"replace", "update", "delete"} =>
             /\ \A id \in Ids : id # last'.id => RepoGet(items', id) = RepoGet(items, id)
             /\ ~Has(items, last'.id) =>
                   /\ items' = items
                   /\ IsNone(last'.note)
                   /\ ~last'.deleted
                   /\ last'.status = 404
             /\ Has(items, last'.id) => last'.status \in {200, 204}
       /\ last'.op = "get" =>
             /\ items' = items
             /\ ~Has(items, last'.id) => IsNone(last'.note) /\ last'.status = 404
             /\ Has(items, last'.id) => last'.status = 200
       /\ last'.op = "list" => items' = items]_vars

C9_Witness ==
    /\ last.op = "delete"
    /\ last.deleted
    /\ last.status = 204
    /\ last.id = 2
    /\ Len(items) = 1
    /\ ~IsNone(items[1].content)

\* C10: nothing handed to or returned from create, get, list, replace or
\* update shares state with a stored note: when a caller changes a note it
\* was returned, that note's tags, or the tags of the draft it passed in,
\* every get and every list give what they gave before.
C10_StoreOwnsItsNotes ==
    [][last'.op = "mutate" =>
          /\ \A id \in Ids : RepoGet(items', id) = RepoGet(items, id)
          /\ \A q \in Queries, limit \in Limits, offset \in Offsets :
                RepoList(items', q, limit, offset) = RepoList(items, q, limit, offset)]_vars

\* what a request does and answers when nothing else runs during it
Sequential(d, req) ==
    CASE req.op = "delete" ->
           [items |-> DictPop(d, req.id), note |-> None,
            deleted |-> Has(d, req.id), status |-> IF Has(d, req.id) THEN 204 ELSE 404]
      [] req.op \in {"replace", "update"} /\ ~Has(d, req.id) ->
           [items |-> d, note |-> None, deleted |-> FALSE, status |-> 404]
      [] req.op = "replace" /\ Has(d, req.id) ->
           LET note == RepoReplace(Lookup(d, req.id), req.data)
           IN [items |-> DictSet(d, note), note |-> Some(note),
               deleted |-> FALSE, status |-> 200]
      [] req.op = "update" /\ Has(d, req.id) ->
           LET note == RepoUpdate(Lookup(d, req.id), req.data)
           IN [items |-> DictSet(d, note), note |-> Some(note),
               deleted |-> FALSE, status |-> 200]

Answer(note, deleted, status) ==
    [note |-> note, deleted |-> deleted, status |-> status]

\* the outcomes (dictionary, each request's answer) of the requests of the
\* threads in todo, run one after the other from d in every order
RECURSIVE SerialRuns(_, _, _)
SerialRuns(d, todo, answers) ==
    IF todo = {}
    THEN {[items |-> d, answers |-> answers]}
    ELSE UNION { LET s == Sequential(d, threads[t])
                 IN SerialRuns(s.items, todo \ {t},
                               [answers EXCEPT
                                  ![t] = Answer(s.note, s.deleted, s.status)])
                 : t \in todo }

\* C11: requests that replace, update or delete notes at the same time end as
\* if they had run one after the other in some order: once all of them have
\* returned, the dictionary and every answer are those of a sequential order of
\* the requests from the dictionary they found; no request has failed with
\* anything but the absence answer (404); and an id whose delete returned
\* true is no longer a key (no request here creates it again).
C11_ConcurrentRequestsSerialize ==
    AllDone =>
        /\ [items |-> items,
            answers |-> [t \in Tids |-> Answer(threads[t].note, threads[t].deleted,
                                               threads[t].status)]]
               \in SerialRuns(last.items, Tids, [t \in Tids |-> Answer(None, FALSE, 0)])
        /\ \A t \in Tids : threads[t].status \in {200, 204, 404}
        /\ \A t \in Tids : threads[t].deleted => ~Has(items, threads[t].id)

====
